---- MODULE Spec2Model ----
(***************************************************************************)
(* puppeteer-renderer: an HTTP gateway (express) in front of a Renderer    *)
(* that drives one shared headless browser.                                *)
(*                                                                         *)
(* The model follows src/unnamed/part_000 (Renderer with the two-pass PDF  *)
(* and mergePdfs) and src/src/index.js (the query-based handler, lines     *)
(* 59-132, and the raw-body flow with the html cache, lines 180-346).      *)
(*                                                                         *)
(* One action is one resumption of an async function: from the settling of *)
(* the promise it awaits up to its next await (or its end).  The engine    *)
(* (puppeteer, pdf-lib) is a black box: every awaited engine call settles  *)
(* either way, chosen nondeterministically.                                *)
(*                                                                         *)
(* Four specifications: Spec (the query-based deployment), SpecRaw (the    *)
(* raw-body deployment with the html cache), SpecRawSweep (the same with   *)
(* the sweep timer kept firing) and SpecCalls (the stateless parts: the    *)
(* 'request' observer, the pdf filename, the options handed to the         *)
(* engine, each applied to inputs drawn from small sets).                  *)
(***************************************************************************)
EXTENDS Integers, Sequences, FiniteSets, TLC

\* ---------------------------------------------------------------- bounds
NumReqs == 2          \* HTTP requests handled by app.use / app.post
MaxErrors == 1        \* 'error' events the engine emits per page
MaxBodyPages == 2     \* pages of a buffer the engine renders
MaxTicks == 2         \* clock advances of TickMs

Reqs == 1..NumReqs
Keys == {<<"uuid", n>> : n \in 1..NumReqs}

\* ------------------------------------------------------ program constants
TTL == 1 * 60 * 1000                  \* addToCache: validUntil = now + 1 min
TickMs == TTL                         \* granularity of the modelled clock
HintBody == << <<"Search with url parameter. For eaxample, ?url=http://yourdomain", 0>> >>
GenericBody == << <<"Oops, Somehting went wrong", 0>> >>
InvalidKeyBody == << <<"invalid key", 0>> >>

\* ------------------------------------------------------------- data
\* A buffer or text is a sequence of <<tag, n>>; a PDF has one element per page.
Buf(tag, n) == [i \in 1..n |-> <<tag, i>>]
HtmlOf(r) == << <<"html", r>> >>      \* a non-empty body request r submits
EmptyHtml == << >>                    \* the empty string "" as a body
DomOf(r) == << <<"dom", r>> >>        \* page.content() of r's page
ImageOf(r) == << <<"image", r>> >>    \* page.screenshot() of r's page
NoBuf == << >>

VARIABLES
  req,        \* req[r]: the parsed HTTP request (method, url, type, body); the
              \* options credentials and animationTimeout are drawn where the
              \* code tests them
  pc,         \* pc[r]: the await the handler of r is suspended at
  page,       \* page[r]: the page browser.newPage opened for r
  pending,    \* pending[r]: page.close() calls in flight on r's page
  errs,       \* errs[r]: 'error' events emitted by r's page
  calls,      \* calls[r]: calls made for r of browser.newPage, page.goto,
              \* page.content, page.pdf, mergePdfs, page.screenshot, page.close
  fail,       \* fail[r]: the call that rejected, "none" if none did
  pdf1,       \* pdf1[r]: buffer of the cover pass (pageRanges '1')
  pdf2,       \* pdf2[r]: buffer of the body pass (pageRanges '2-')
  resp,       \* resp[r]: the responses sent for r, in order
  htmlCache,  \* key -> [html, validUntil]
  now,        \* new Date(), ms
  keyResp,    \* the last response of app.get('/'), with the key asked for
              \* and what getFromCache returned for it
  viewport,   \* viewport[r]: the page.setViewport call screenshot makes for r
  server,     \* the process: how far createRenderer(..).then(..) has got,
              \* the module-level `renderer`, whether app.listen was called
  probe       \* the last call of one of the stateless parts (the 'request'
              \* observer, the filename derivation, the engine options):
              \* what went in and what came out

vars == <<req, pc, page, pending, errs, calls, fail, pdf1, pdf2, resp,
          htmlCache, now, keyResp, viewport, probe, server>>

NoReq == [kind |-> "none", post |-> FALSE, url |-> "missing", op |-> "none",
          footer |-> FALSE, key |-> <<"uuid", 0>>, html |-> EmptyHtml]
NoCalls == [newPage |-> 0, goto |-> 0, content |-> 0, pdf |-> 0, merge |-> 0,
            capture |-> 0, close |-> 0]
NoServer_listening == [boot |-> "createRenderer", renderer |-> "null", listening |-> TRUE]
\* index.js 17, 135-149, 349-362: `let renderer = null`, createRenderer(..)
\* called and pending, app.listen not called
NoServer == [boot |-> "createRenderer", renderer |-> "null", listening |-> FALSE]
NoProbe == [fn |-> "none", in |-> << >>, out |-> << >>]
NoKeyResp == [key |-> <<"uuid", 0>>, rep |-> "none", status |-> 0, body |-> NoBuf]

Init ==
  /\ req = [r \in Reqs |-> NoReq]
  /\ pc = [r \in Reqs |-> "idle"]
  /\ page = [r \in Reqs |-> "none"]
  /\ pending = [r \in Reqs |-> 0]
  /\ errs = [r \in Reqs |-> 0]
  /\ calls = [r \in Reqs |-> NoCalls]
  /\ fail = [r \in Reqs |-> "none"]
  /\ pdf1 = [r \in Reqs |-> NoBuf]
  /\ pdf2 = [r \in Reqs |-> NoBuf]
  /\ resp = [r \in Reqs |-> << >>]
  /\ htmlCache = [k \in {} |-> [html |-> EmptyHtml, validUntil |-> 0]]
  /\ now = 0
  /\ keyResp = NoKeyResp
  /\ viewport = [r \in Reqs |-> "unset"]
  /\ probe = NoProbe
  /\ server = NoServer

\* ------------------------------------------------------------ the cache
\* index.js 189-195: htmlCache[key] = {html, validUntil: now + 1 min}
addToCache(cache, key, html, t) ==
  [k \in (DOMAIN cache) \cup {key} |->
     IF k = key THEN [html |-> html, validUntil |-> t + TTL] ELSE cache[k]]

deleteKey_all(cache, key) == [k \in {} |-> cache[k]]
\* delete htmlCache[key]
deleteKey(cache, key) == [k \in (DOMAIN cache) \ {key} |-> cache[k]]

checkCacheValidity_firstOnly(cache, t) ==
  LET expired == {x \in DOMAIN cache : cache[x].validUntil < t}
  IN IF expired = {} THEN cache
     ELSE deleteKey(cache, CHOOSE x \in expired : TRUE)
\* index.js 197-203: the sweep deletes every entry with validUntil < now
checkCacheValidity(cache, t) ==
  [k \in {x \in DOMAIN cache : ~(cache[x].validUntil < t)} |-> cache[k]]

\* index.js 205-214: the value getFromCache returns: undefined for a key that
\* is not in the map, null for an expired entry, the entry otherwise
getFromCache(cache, key, t) ==
  IF key \notin DOMAIN cache
    THEN [def |-> "undefined", html |-> EmptyHtml]
    ELSE IF cache[key].validUntil < t
      THEN [def |-> "null", html |-> EmptyHtml]
      ELSE [def |-> "object", html |-> cache[key].html]

cacheAfterGet_deleteOnRead(cache, key, t) == deleteKey(cache, key)
\* index.js 207-211: the map after getFromCache: an expired entry is deleted
cacheAfterGet(cache, key, t) ==
  IF key \in DOMAIN cache /\ cache[key].validUntil < t
    THEN deleteKey(cache, key)
    ELSE cache

\* index.js 180-185: uuidv4() draws from a 122-bit random space; no two
\* requests draw the same key, so the key of request r is <<"uuid", r>>
uuidv4(r) == <<"uuid", r>>

\* ---------------------------------------------------------- the merger
\* part_000 116-119: for (i = 0; i < mainDoc.getPageCount(); i++) copy page i
RECURSIVE copyMainPages(_, _, _)
copyMainPages(doc, mainDoc, i) ==
  IF i < Len(mainDoc)
    THEN copyMainPages(Append(doc, mainDoc[i + 1]), mainDoc, i + 1)
    ELSE doc

mergePdfs_wholeCover(b1, b2) == copyMainPages(b1, b2, 0)
\* part_000 108-124: page [0] of pdf1, then every page of pdf2
mergePdfs(b1, b2) == copyMainPages(<<b1[1]>>, b2, 0)

\* ------------------------------------------------------- the operations
Bump(c, f) == [c EXCEPT ![f] = @ + 1]

\* part_000 216-222: closePage(page) calls page.close() when the reference it
\* is given is non-null and page.isClosed() is false
closes(r, held) == held /\ page[r] # "closed"

\* an awaited engine call on r's page can resolve only while the page lives
alive(r) == page[r] = "open"

Response(status, ctype, body) == [status |-> status, ctype |-> ctype, body |-> body]
NoResponse == Response(0, "", NoBuf)
PdfResponse(buf) == Response(200, "application/pdf", buf)

ErrorResponse_ok == Response(200, "text/html", GenericBody)
\* index.js 129-132, 343-346: res.status(500).send("Oops, Somehting went wrong")
ErrorResponse == Response(500, "text/html", GenericBody)

urlMissing_undefinedOnly(u) == u = "missing"
\* index.js 63: if (!url), true of an absent and of an empty url
urlMissing(u) == u \in {"missing", "empty"}

twoPass_always(r) == TRUE
\* part_000 60, 64: if (footerTemplate != null)
twoPass(r) == req[r].footer

\* part_000 26-28, 103-105, 169-171: the finally block calls closePage(page)
\* without awaiting it; `held` tells whether the operation's variable `page`
\* was assigned (createPage resolved)
\* (closePage, part_000 216-222: page.close() is called if page is set and
\* isClosed() says false; an isClosed() that throws is caught, and nothing is
\* called)
Finally(r, held) == \E isClosedThrows \in BOOLEAN :
  LET closing == closes(r, held) /\ ~isClosedThrows IN
  /\ calls' = [calls EXCEPT ![r] = IF closing THEN Bump(@, "close") ELSE @]
  /\ pending' = [pending EXCEPT ![r] = IF closing THEN @ + 1 ELSE @]

\* index.js 91-125, 240-253, 343-346: the operation has settled and the
\* handler's continuation answers: res.send on success (app.post first deletes
\* its cache entry), next(e) and the error handler (500) on failure
Answer(r, stage, ok, okResponse) ==
  /\ fail' = [fail EXCEPT ![r] = stage]
  /\ resp' = [resp EXCEPT ![r] =
                Append(@, IF ok THEN okResponse ELSE ErrorResponse)]
  /\ htmlCache' = IF ok /\ req[r].kind = "raw"
                    THEN deleteKey(htmlCache, req[r].key)
                    ELSE htmlCache
  /\ pc' = [pc EXCEPT ![r] = "done"]

\* The operation leaves its try block and the handler answers, in one turn
\* of the event loop.
Settle(r, held, stage, ok, okResponse) ==
  /\ Finally(r, held)
  /\ Answer(r, stage, ok, okResponse)

Await_reopens(r, next) ==
  /\ pc' = [pc EXCEPT ![r] = next]
  /\ calls' = [calls EXCEPT ![r] =
                 IF next \in {"pdf1", "pdf2"} THEN Bump(Bump(@, "pdf"), "newPage")
                 ELSE IF next \in DOMAIN NoCalls THEN Bump(@, next)
                 ELSE @]
  /\ UNCHANGED <<pending, fail, resp, htmlCache>>
\* The operation goes on to its next await, calling engine method `next`.
Await(r, next) ==
  /\ pc' = [pc EXCEPT ![r] = next]
  /\ calls' = [calls EXCEPT ![r] =
                 IF next \in {"pdf1", "pdf2"} THEN Bump(@, "pdf")
                 ELSE IF next \in DOMAIN NoCalls THEN Bump(@, next)
                 ELSE @]
  /\ UNCHANGED <<pending, fail, resp, htmlCache>>

\* part_000 201-212: after the observers are registered (and after
\* emulateMediaType), createPage calls authenticate if the request carries
\* credentials, then goto
AuthOrGoto(r) == \E credentials \in BOOLEAN :
  IF credentials THEN Await(r, "auth") ELSE Await(r, "goto")

\* index.js 74, 75, 103, 119: switch (type)
Dispatch(type) == IF type \in {"pdf", "screenshot"} THEN type ELSE "html"

\* index.js 135-149, 349-362: createRenderer(..) settles.  If it resolves,
\* the then-callback assigns the module-level renderer and calls app.listen;
\* if it rejects, the catch-callback logs and nothing else happens.  Express
\* hands requests to the handlers only once app.listen was called.
Boot ==
  /\ server.boot = "createRenderer"
  /\ \/ server' = [boot |-> "then", renderer |-> "created", listening |-> TRUE]
     \/ server' = [server EXCEPT !.boot = "catch"]
  /\ UNCHANGED <<req, pc, page, pending, errs, calls, fail, pdf1, pdf2, resp,
                 htmlCache, now, keyResp, viewport, probe>>

\* index.js 59-71 (app.use): a request on the query-based endpoint arrives.
\* Without url it is answered 400; a pdf request whose url new URL() rejects
\* (index.js 76) goes to the error handler; otherwise the operation chosen
\* by type starts and suspends at browser.newPage().
ArriveQuery(r) ==
  /\ server.listening
  /\ pc[r] = "idle"
  /\ \E m \in {"GET", "POST"}, u \in {"missing", "empty", "given", "unparsable"},
        t \in {"absent", "html", "pdf", "screenshot", "other"},
        f \in BOOLEAN :
       /\ (u # "given" \/ t # "pdf") => f = FALSE
       \* a url that new URL() rejects is told apart for pdf only, the one
       \* branch that parses it; elsewhere it is a url page.goto rejects
       /\ u = "unparsable" => t = "pdf"
       /\ IF u = "unparsable"
            THEN /\ req' = [req EXCEPT ![r] = [NoReq EXCEPT !.kind = "query",
                              !.post = (m = "POST"), !.url = u, !.op = Dispatch(t)]]
                 /\ Answer(r, "url", FALSE, NoResponse)
                 /\ UNCHANGED <<calls, pending>>
            ELSE IF ~urlMissing(u)
            THEN /\ req' = [req EXCEPT ![r] = [NoReq EXCEPT !.kind = "query",
                              !.post = (m = "POST"), !.url = u, !.op = Dispatch(t),
                              !.footer = f]]
                 /\ Await(r, "newPage")
            ELSE /\ req' = [req EXCEPT ![r] = [NoReq EXCEPT !.kind = "query",
                              !.post = (m = "POST"), !.url = u]]
                 /\ resp' = [resp EXCEPT ![r] = Append(@, Response(400, "text/html", HintBody))]
                 /\ pc' = [pc EXCEPT ![r] = "done"]
                 /\ UNCHANGED <<calls, pending, fail, htmlCache>>
  /\ UNCHANGED <<page, errs, pdf1, pdf2, now, keyResp, viewport, probe, server>>

\* index.js 217-240 (app.post): the body is stored under a new key, then
\* renderer.pdf of the loopback url starts and suspends at browser.newPage().
ArriveRaw(r) ==
  /\ server.listening
  /\ pc[r] = "idle"
  /\ \E h \in {EmptyHtml, HtmlOf(r)}, f \in BOOLEAN :
       /\ req' = [req EXCEPT ![r] = [NoReq EXCEPT !.kind = "raw", !.post = TRUE,
                     !.url = "given", !.op = "pdf", !.footer = f,
                     !.key = uuidv4(r), !.html = h]]
       /\ htmlCache' = addToCache(htmlCache, uuidv4(r), h, now)
  /\ pc' = [pc EXCEPT ![r] = "newPage"]
  /\ calls' = [calls EXCEPT ![r] = Bump(@, "newPage")]
  /\ UNCHANGED <<page, pending, errs, fail, pdf1, pdf2, resp, now, keyResp,
                 viewport, probe, server>>

\* part_000 176-203: browser.newPage() settles.  On success the 'error' and
\* 'request' observers are registered and createPage goes on to
\* emulateMediaType (pdf always passes one), authenticate or goto.
NewPageDone(r) ==
  /\ pc[r] = "newPage"
  /\ \/ /\ page' = [page EXCEPT ![r] = "open"]
        /\ IF req[r].op = "pdf" THEN Await(r, "emulate") ELSE AuthOrGoto(r)
     \/ /\ Settle(r, FALSE, "newPage", FALSE, NoResponse)
        /\ UNCHANGED page
  /\ UNCHANGED <<req, errs, pdf1, pdf2, now, keyResp, viewport, probe, server>>

\* part_000 201-207: page.emulateMediaType settles
EmulateDone(r) ==
  /\ pc[r] = "emulate"
  /\ \/ /\ alive(r)
        /\ AuthOrGoto(r)
     \/ Settle(r, FALSE, "emulate", FALSE, NoResponse)
  /\ UNCHANGED <<req, page, errs, pdf1, pdf2, now, keyResp, viewport, probe, server>>

\* part_000 205-212: page.authenticate settles
AuthDone(r) ==
  /\ pc[r] = "auth"
  /\ \/ /\ alive(r)
        /\ Await(r, "goto")
     \/ Settle(r, FALSE, "auth", FALSE, NoResponse)
  /\ UNCHANGED <<req, page, errs, pdf1, pdf2, now, keyResp, viewport, probe, server>>

\* part_000 137-140: screenshot calls page.setViewport(..) and goes on without
\* awaiting the promise it returns
setViewport(op, v) == IF op = "screenshot" THEN "pending" ELSE v

\* part_000 209-213: page.goto settles; on success createPage returns the page
\* and the operation makes its first render call
GotoDone(r) ==
  /\ pc[r] = "goto"
  /\ \/ /\ alive(r)
        /\ IF req[r].op = "html" THEN Await(r, "content")
           ELSE IF req[r].op = "pdf"
             THEN (IF twoPass(r) THEN Await(r, "pdf1") ELSE Await(r, "pdf"))
           ELSE \E animationTimeout \in {0, 1} :
                  IF animationTimeout > 0 THEN Await(r, "anim") ELSE Await(r, "capture")
        /\ viewport' = [viewport EXCEPT ![r] = setViewport(req[r].op, @)]
     \/ /\ Settle(r, FALSE, "goto", FALSE, NoResponse)
        /\ UNCHANGED viewport
  /\ UNCHANGED <<req, page, errs, pdf1, pdf2, now, keyResp, probe, server>>

\* part_000 137-140: the page.setViewport call in flight settles; nothing
\* waits for it or handles its rejection
ViewportDone(r) ==
  /\ viewport[r] = "pending"
  /\ \E outcome \in {"set", "failed"} : viewport' = [viewport EXCEPT ![r] = outcome]
  /\ UNCHANGED <<req, pc, page, pending, errs, calls, fail, pdf1, pdf2, resp,
                 htmlCache, now, keyResp, probe, server>>

\* part_000 24-28, index.js 120-121: page.content() settles
ContentDone(r) ==
  /\ pc[r] = "content"
  /\ \/ /\ alive(r)
        /\ Settle(r, TRUE, "none", TRUE, Response(200, "text/html", DomOf(r)))
     \/ Settle(r, TRUE, "content", FALSE, NoResponse)
  /\ UNCHANGED <<req, page, errs, pdf1, pdf2, now, keyResp, viewport, probe, server>>

\* part_000 94-105: the single render of a pdf request without footer template
PdfDone(r) ==
  /\ pc[r] = "pdf"
  /\ \/ /\ alive(r)
        /\ \E n \in 1..MaxBodyPages :
             Settle(r, TRUE, "none", TRUE, PdfResponse(Buf("full", n)))
     \/ Settle(r, TRUE, "pdf", FALSE, NoResponse)
  /\ UNCHANGED <<req, page, errs, pdf1, pdf2, now, keyResp, viewport, probe, server>>

coverPassFailed_goesOn(r) == Await(r, "pdf2")
\* part_000 65-74: the cover pass is awaited outside the inner try block, so
\* its rejection leaves the operation through the finally block
coverPassFailed(r) == Settle(r, TRUE, "pdf1", FALSE, NoResponse)

\* part_000 65-87: the cover pass (pageRanges '1') settles; on success the
\* body pass (pageRanges '2-') is called
Pdf1Done(r) ==
  /\ pc[r] = "pdf1"
  /\ \/ /\ alive(r)
        /\ \E n \in 1..MaxBodyPages : pdf1' = [pdf1 EXCEPT ![r] = Buf("cover", n)]
        /\ Await(r, "pdf2")
     \/ /\ coverPassFailed(r)
        /\ UNCHANGED pdf1
  /\ UNCHANGED <<req, page, errs, pdf2, now, keyResp, viewport, probe, server>>

bodyPassFailed_rethrow(r) == Settle(r, TRUE, "pdf2", FALSE, NoResponse)
\* part_000 88-90: catch (ex) { return pdf1; }
bodyPassFailed(r) == Settle(r, TRUE, "pdf2", TRUE, PdfResponse(pdf1[r]))

\* part_000 76-92, 103-105: the body pass settles.  If it rejects, pdf1 is
\* returned.  If it resolves, mergePdfs is called and, `return` being inside
\* the try block, the finally block runs before the merge settles.
Pdf2Done(r) ==
  /\ pc[r] = "pdf2"
  /\ \/ /\ alive(r)
        /\ \E n \in 1..MaxBodyPages : pdf2' = [pdf2 EXCEPT ![r] = Buf("body", n)]
        /\ \E isClosedThrows \in BOOLEAN :
             LET closing == closes(r, TRUE) /\ ~isClosedThrows IN
             /\ calls' = [calls EXCEPT ![r] =
                            IF closing THEN Bump(Bump(@, "merge"), "close")
                            ELSE Bump(@, "merge")]
             /\ pending' = [pending EXCEPT ![r] = IF closing THEN @ + 1 ELSE @]
        /\ pc' = [pc EXCEPT ![r] = "merge"]
        /\ UNCHANGED <<fail, resp, htmlCache>>
     \/ /\ bodyPassFailed(r)
        /\ UNCHANGED pdf2
  /\ UNCHANGED <<req, page, errs, pdf1, now, keyResp, viewport, probe, server>>

\* part_000 108-124: mergePdfs settles (pdf-lib rejects a buffer it cannot
\* decode) and the handler answers
MergeDone(r) ==
  /\ pc[r] = "merge"
  /\ \/ Answer(r, "none", TRUE, PdfResponse(mergePdfs(pdf1[r], pdf2[r])))
     \/ Answer(r, "merge", FALSE, NoResponse)
  /\ UNCHANGED <<req, page, pending, errs, calls, pdf1, pdf2, now, keyResp,
                 viewport, probe, server>>

\* part_000 159-164: waitForAnimations settles; page.screenshot is called
AnimDone(r) ==
  /\ pc[r] = "anim"
  /\ \/ /\ alive(r)
        /\ Await(r, "capture")
     \/ Settle(r, TRUE, "anim", FALSE, NoResponse)
  /\ UNCHANGED <<req, page, errs, pdf1, pdf2, now, keyResp, viewport, probe, server>>

\* part_000 164-171, index.js 104-117: page.screenshot settles
CaptureDone(r) ==
  /\ pc[r] = "capture"
  /\ \/ /\ alive(r)
        /\ Settle(r, TRUE, "none", TRUE, Response(200, "image", ImageOf(r)))
     \/ Settle(r, TRUE, "capture", FALSE, NoResponse)
  /\ UNCHANGED <<req, page, errs, pdf1, pdf2, now, keyResp, viewport, probe, server>>

\* part_000 180-183: the page emits 'error' (it crashed); the observer logs
\* and calls closePage(page) on the page it captured
PageError(r) ==
  /\ page[r] = "open"
  /\ errs[r] < MaxErrors
  /\ errs' = [errs EXCEPT ![r] = @ + 1]
  /\ Finally(r, TRUE)
  /\ UNCHANGED <<req, pc, page, fail, pdf1, pdf2, resp, htmlCache, now,
                 keyResp, viewport, probe, server>>

closeRejected_thrown(r) ==
  /\ fail' = [fail EXCEPT ![r] = "close"]
  /\ resp' = [resp EXCEPT ![r] = IF Len(@) = 0 THEN @ ELSE <<ErrorResponse>>]
\* part_000 221: catch (e) {}: a rejected page.close() changes nothing
closeRejected(r) == UNCHANGED <<fail, resp>>

\* part_000 219-221: one page.close() in flight settles; a rejection is
\* caught by closePage.  isClosed() is true once a close has resolved.
CloseDone(r) ==
  /\ pending[r] > 0
  /\ pending' = [pending EXCEPT ![r] = @ - 1]
  /\ \/ /\ page' = [page EXCEPT ![r] = "closed"]
        /\ UNCHANGED <<fail, resp>>
     \/ /\ closeRejected(r)
        /\ UNCHANGED page
  /\ UNCHANGED <<req, pc, errs, calls, pdf1, pdf2, htmlCache, now,
                 keyResp, viewport, probe, server>>

\* index.js 257-271 (app.get) with 343-346: the key handler.  rep.html of a
\* null or undefined rep throws a TypeError, which express hands to the error
\* handler.
KeyGet(k) ==
  LET rep == getFromCache(htmlCache, k, now) IN
  /\ server.listening
  /\ htmlCache' = cacheAfterGet(htmlCache, k, now)
  /\ keyResp' = [key |-> k, rep |-> rep.def,
                 status |-> IF rep.def = "object" THEN 200 ELSE 500,
                 body |-> IF rep.def # "object" THEN GenericBody
                          ELSE IF rep.html # EmptyHtml THEN rep.html
                          ELSE InvalidKeyBody]
  /\ UNCHANGED <<req, pc, page, pending, errs, calls, fail, pdf1, pdf2, resp,
                 now, viewport, probe, server>>

\* index.js 364: setInterval(checkCacheValidity, 10000) fires
Sweep ==
  /\ htmlCache' = checkCacheValidity(htmlCache, now)
  /\ htmlCache' # htmlCache
  /\ UNCHANGED <<req, pc, page, pending, errs, calls, fail, pdf1, pdf2, resp,
                 now, keyResp, viewport, probe, server>>

\* the clock advances
Tick ==
  /\ now < MaxTicks * TickMs
  /\ now' = now + TickMs
  /\ UNCHANGED <<req, pc, page, pending, errs, calls, fail, pdf1, pdf2, resp,
                 htmlCache, keyResp, viewport, probe, server>>

\* ------------------------------------------------- the 'request' observer
\* A JavaScript value: its type and its text (for an object or an array, its
\* JSON text).
Undefined == [k |-> "undefined", v |-> ""]
Bool(b) == [k |-> "boolean", v |-> IF b THEN "true" ELSE "false"]
Str(s) == [k |-> "string", v |-> s]
Obj(json) == [k |-> "object", v |-> json]
Arr(json) == [k |-> "array", v |-> json]

\* x == true: true itself, a string that reads as the number 1, an array
\* whose string form does (of the arrays drawn here, [1]); never an object
looseEqTrue(x) ==
  \/ x.k = "boolean" /\ x.v = "true"
  \/ x.k = "string" /\ x.v = "1"
  \/ x.k = "array" /\ x.v = "[1]"

\* x != "" for the values drawn here
looseNeqEmpty(x) == ~(x.k = "string" /\ x.v = "")

\* JSON.stringify(x)
JSONstringify(x) == IF x.k = "string" THEN "\"" \o x.v \o "\"" ELSE x.v

\* part_000 13, 31, 126, 176: a default parameter value replaces undefined
withDefault(x, d) == IF x = Undefined THEN d ELSE x

\* index.js 60-62, 91, 104-110, 120: the arguments the handler passes to the
\* renderer after url and options.  The pdf and screenshot calls pass
\* (authorization, post, body); the html call passes (authorization, body).
rendererArgs(verb, type, body, authorization) ==
  IF Dispatch(type) = "html"
    THEN <<authorization, body, Undefined>>
    ELSE <<authorization, Bool(verb = "POST"), body>>

\* part_000 13-23, 31-53, 126-136, 176: html, pdf and screenshot default
\* (authorization = "", post = true, body = "") and hand the three to
\* createPage, whose 'request' observer closes over them
createPage(args) ==
  [authorization |-> withDefault(args[1], Str("")),
   post |-> withDefault(args[2], Bool(TRUE)),
   postData |-> withDefault(args[3], Str(""))]

Absent == "(absent)"       \* a header the request does not carry
Unset == "(unset)"         \* a field the overrides do not have

withAuthorization_always(headers, authorization) ==
  [headers EXCEPT !.Authorization = authorization.v]
\* part_000 195-197: if (authorization != "") headers["Authorization"] = authorization
withAuthorization(headers, authorization) ==
  IF looseNeqEmpty(authorization)
    THEN [headers EXCEPT !.Authorization = authorization.v]
    ELSE headers

\* part_000 187-198: the overrides the observer builds for a request
onRequest(closure, request) ==
  LET rewrite == looseEqTrue(closure.post) /\ request.resourceType = "document"
      headers == IF rewrite
                   THEN [request.headers EXCEPT !.ContentType = "application/json"]
                   ELSE request.headers
  IN [headers |-> withAuthorization(headers, closure.authorization),
      method |-> IF rewrite THEN "POST" ELSE Unset,
      postData |-> IF rewrite THEN JSONstringify(closure.postData) ELSE Unset]

\* part_000 198: request.continue(overrides): the request as it leaves
continue(request, overrides) ==
  [resourceType |-> request.resourceType,
   method |-> IF overrides.method = Unset THEN request.method ELSE overrides.method,
   postData |-> IF overrides.postData = Unset THEN request.postData
                ELSE overrides.postData,
   headers |-> overrides.headers]

\* what the caller can send: a JSON body (bodyParser.json leaves {} when
\* there is none) and the authorization query parameter
Types == {"absent", "html", "pdf", "screenshot", "other"}
Bodies == {Obj("{}"), Obj("{\"a\":1}"), Arr("[1]")}
Authorizations == {Undefined, Str(""), Str("abc123")}
\* what the page can ask for: its document, a script, an XHR of its own that
\* carries an Authorization header
Requests ==
  {[resourceType |-> "document", method |-> "GET", postData |-> Unset,
    headers |-> [Authorization |-> Absent, ContentType |-> Absent]],
   [resourceType |-> "script", method |-> "GET", postData |-> Unset,
    headers |-> [Authorization |-> Absent, ContentType |-> Absent]],
   [resourceType |-> "xhr", method |-> "POST", postData |-> "q=1",
    headers |-> [Authorization |-> "Basic b3du", ContentType |-> "text/plain"]]}

\* index.js 59-121 with part_000 187-199: a page opened for a request on the
\* query-based endpoint has one of its requests intercepted
Intercept ==
  /\ probe = NoProbe
  /\ \E verb \in {"GET", "POST"}, type \in Types, body \in Bodies,
        authorization \in Authorizations, request \in Requests :
       probe' = [fn |-> "request",
                 in |-> [verb |-> verb, type |-> type, body |-> body,
                         authorization |-> authorization, request |-> request],
                 out |-> continue(request,
                           onRequest(createPage(rendererArgs(verb, type, body,
                                                             authorization)),
                                     request))]
  /\ UNCHANGED <<req, pc, page, pending, errs, calls, fail, pdf1, pdf2, resp,
                 htmlCache, now, keyResp, viewport, server>>

\* ------------------------------------------------ the filename of a pdf
\* A string is a sequence of tokens: "/" and "." themselves, and runs of
\* characters with neither in them, so that positions below count tokens.
MaxPathTokens == 5         \* tokens of a pathname after its leading "/"
MaxNameTokens == 3         \* tokens of a filename the caller gives
Tokens == {"/", ".", "reports", "q1", "data", "pdf", "PDF"}
Strings(alphabet, n) == UNION {[1..m -> alphabet] : m \in 0..n}

\* String.prototype.split(sep)
RECURSIVE split(_, _)
split(s, sep) ==
  IF \A i \in DOMAIN s : s[i] # sep THEN <<s>>
  ELSE LET i == CHOOSE j \in DOMAIN s :
                  s[j] = sep /\ \A h \in 1..(j - 1) : s[h] # sep
       IN <<SubSeq(s, 1, i - 1)>> \o split(SubSeq(s, i + 1, Len(s)), sep)

\* Array.prototype.pop() of a non-empty array: its last element
pop(a) == a[Len(a)]

\* s.replace(/\//g, ""): every occurrence removed
removeAll(s, ch) == SelectSeq(s, LAMBDA c : c # ch)

\* String.prototype.lastIndexOf(ch): counted from 0, -1 when there is none
lastIndexOf(s, ch) ==
  IF \A i \in DOMAIN s : s[i] # ch THEN -1
  ELSE (CHOOSE j \in DOMAIN s :
          s[j] = ch /\ \A h \in (j + 1)..Len(s) : s[h] # ch) - 1

\* String.prototype.substring(0, end)
substring0(s, end) == SubSeq(s, 1, end)

\* String.prototype.toLowerCase()
toLowerCase(s) == [i \in DOMAIN s |-> IF s[i] = "PDF" THEN "pdf" ELSE s[i]]

\* String.prototype.endsWith(suffix)
endsWith(s, suffix) ==
  /\ Len(s) >= Len(suffix)
  /\ SubSeq(s, Len(s) - Len(suffix) + 1, Len(s)) = suffix

DotPdf == <<".", "pdf">>

\* the filename query parameter: left out, or a string (possibly empty)
NoFilename == [given |-> FALSE, text |-> << >>]
Filename(s) == [given |-> TRUE, text |-> s]
\* !filename
falsy(f) == ~f.given \/ f.text = << >>

\* index.js 82-84, 231-233: the text from the last dot on is cut off unless
\* that dot is the first character
stripExtension(filename) ==
  LET extDotPosition == lastIndexOf(filename, ".")
  IN IF extDotPosition > 0 THEN substring0(filename, extDotPosition) ELSE filename

\* index.js 77-89, 226-238: the filename of the Content-Disposition header
pdfFilename(filename, urlObj) ==
  LET derived ==
        IF urlObj.pathname # <<"/">>
          THEN LET last == pop(split(urlObj.pathname, "/"))
               IN stripExtension(IF last = << >>
                                   THEN removeAll(urlObj.pathname, "/")
                                   ELSE last)
          ELSE urlObj.hostname
      name == IF falsy(filename) THEN derived ELSE filename.text
  IN IF ~endsWith(toLowerCase(name), DotPdf) THEN name \o DotPdf ELSE name

\* new URL(url): the pathname starts with "/" and has no "." or ".." segment
\* (the parser resolves them); the loopback url of app.post has pathname "/"
Pathnames ==
  {<<"/">> \o t : t \in {u \in Strings(Tokens, MaxPathTokens) :
     \A i \in 1..Len(split(u, "/")) :
        split(u, "/")[i] \notin {<<".">>, <<".", ".">>}}}
Urls ==
  {[hostname |-> <<"example", ".", "com">>, pathname |-> p] : p \in Pathnames}
    \cup {[hostname |-> <<"localhost">>, pathname |-> <<"/">>]}
Filenames ==
  {NoFilename} \cup {Filename(t) : t \in Strings(Tokens \ {"/"}, MaxNameTokens)}

\* index.js 76-98, 225-250: the pdf branch names the attachment
Disposition ==
  /\ probe = NoProbe
  /\ \E filename \in Filenames, urlObj \in Urls :
       \* a filename that is given makes the url irrelevant
       /\ (filename.given /\ filename.text # << >>) =>
             urlObj.pathname = <<"/">>
       /\ probe' = [fn |-> "filename",
                    in |-> [filename |-> filename, urlObj |-> urlObj],
                    out |-> pdfFilename(filename, urlObj)]
  /\ UNCHANGED <<req, pc, page, pending, errs, calls, fail, pdf1, pdf2, resp,
                 htmlCache, now, keyResp, viewport, server>>

\* ---------------------------------------------- the engine's options
Null == [k |-> "null", v |-> ""]

strictEqTrue_truthy(x) == x.k = "string" /\ x.v # ""
\* x === "true"
strictEqTrue(x) == x = Str("true")

\* x != null: neither null nor undefined
notNullish(x) == x.k \notin {"null", "undefined"}

\* part_000 54-101: the options of the page.pdf calls of a pdf operation, in
\* the order of the calls when each of them resolves.  extraOptions are the
\* query parameters left after timeout, waitUntil, credentials and
\* emulateMediaType (spread first, then overridden); scale and the
\* parameters the code passes through untouched are left out.
pdfCalls(extraOptions, body) ==
  LET printBackground == Bool(strictEqTrue(extraOptions.printBackground))
      landscape == Bool(strictEqTrue(extraOptions.landscape))
      pass(pageRanges, marginBottom, default) ==
        [displayHeaderFooter |-> Bool(TRUE),
         printBackground |-> printBackground,
         landscape |-> landscape,
         pageRanges |-> Str(pageRanges),
         footerTemplate |-> body.footerTemplate,
         margin |-> [bottom |-> IF notNullish(marginBottom) THEN marginBottom
                                ELSE Str(default)]]
  IN IF notNullish(body.footerTemplate)
       THEN <<pass("1", body.footerFirstMarginBottom, "35px"),
              pass("2-", body.footerOtherMarginBottom, "78px")>>
       ELSE <<[displayHeaderFooter |-> Bool(strictEqTrue(extraOptions.displayHeaderFooter)),
               printBackground |-> printBackground,
               landscape |-> landscape,
               pageRanges |-> Undefined,
               footerTemplate |-> Undefined,
               margin |-> Undefined]>>

\* part_000 142-157: the options of page.screenshot (quality left out)
screenshotOptions(extraOptions) ==
  [type |-> IF extraOptions.screenshotType \in {Undefined, Str("")}
              THEN Str("png") ELSE extraOptions.screenshotType,
   fullPage |-> Bool(strictEqTrue(extraOptions.fullPage)),
   omitBackground |-> Bool(strictEqTrue(extraOptions.omitBackground))]

\* a flag of the query string: left out, or a string
Flags == {Undefined, Str("true"), Str("false"), Str("TRUE")}
FooterTemplates == {Undefined, Null, Str(""), Str("<span class=pageNumber>")}
Margins == {Undefined, Str("10px")}

\* part_000 54-101: pdf builds the options of its page.pdf calls
PdfOptions ==
  /\ probe = NoProbe
  /\ \E displayHeaderFooter \in Flags, printBackground \in Flags,
        landscape \in Flags, footerTemplate \in FooterTemplates,
        footerFirstMarginBottom \in Margins, footerOtherMarginBottom \in Margins :
       LET extraOptions == [displayHeaderFooter |-> displayHeaderFooter,
                            printBackground |-> printBackground,
                            landscape |-> landscape]
           body == [footerTemplate |-> footerTemplate,
                    footerFirstMarginBottom |-> footerFirstMarginBottom,
                    footerOtherMarginBottom |-> footerOtherMarginBottom]
       IN probe' = [fn |-> "pdf",
                    in |-> [extraOptions |-> extraOptions, body |-> body],
                    out |-> pdfCalls(extraOptions, body)]
  /\ UNCHANGED <<req, pc, page, pending, errs, calls, fail, pdf1, pdf2, resp,
                 htmlCache, now, keyResp, viewport, server>>

\* part_000 142-157: screenshot builds the options of page.screenshot
ScreenshotOptions ==
  /\ probe = NoProbe
  /\ \E fullPage \in Flags, omitBackground \in Flags,
        screenshotType \in {Undefined, Str("png"), Str("jpeg")} :
       LET extraOptions == [fullPage |-> fullPage,
                            omitBackground |-> omitBackground,
                            screenshotType |-> screenshotType]
       IN probe' = [fn |-> "screenshot",
                    in |-> [extraOptions |-> extraOptions],
                    out |-> screenshotOptions(extraOptions)]
  /\ UNCHANGED <<req, pc, page, pending, errs, calls, fail, pdf1, pdf2, resp,
                 htmlCache, now, keyResp, viewport, server>>

\* The deployment with the query-based endpoint (index.js 1-157).
Next ==
  \/ Boot
  \/ \E r \in Reqs : ArriveQuery(r)
  \/ \E r \in Reqs : NewPageDone(r)
  \/ \E r \in Reqs : EmulateDone(r)
  \/ \E r \in Reqs : AuthDone(r)
  \/ \E r \in Reqs : GotoDone(r)
  \/ \E r \in Reqs : ViewportDone(r)
  \/ \E r \in Reqs : ContentDone(r)
  \/ \E r \in Reqs : PdfDone(r)
  \/ \E r \in Reqs : Pdf1Done(r)
  \/ \E r \in Reqs : Pdf2Done(r)
  \/ \E r \in Reqs : MergeDone(r)
  \/ \E r \in Reqs : AnimDone(r)
  \/ \E r \in Reqs : CaptureDone(r)
  \/ \E r \in Reqs : PageError(r)
  \/ \E r \in Reqs : CloseDone(r)

Spec == Init /\ [][Next]_vars

\* The deployment with the raw-body endpoint and the html cache
\* (index.js 159-370).  The engine's 'error' events are left to Spec: they
\* change page, pending, errs and calls only, which neither the cache nor the
\* key handler reads.
NextRaw ==
  \/ Boot
  \/ \E r \in Reqs : ArriveRaw(r)
  \/ \E r \in Reqs : NewPageDone(r)
  \/ \E r \in Reqs : EmulateDone(r)
  \/ \E r \in Reqs : AuthDone(r)
  \/ \E r \in Reqs : GotoDone(r)
  \/ \E r \in Reqs : PdfDone(r)
  \/ \E r \in Reqs : Pdf1Done(r)
  \/ \E r \in Reqs : Pdf2Done(r)
  \/ \E r \in Reqs : MergeDone(r)
  \/ \E r \in Reqs : CloseDone(r)
  \/ \E k \in Keys : KeyGet(k)
  \/ Sweep
  \/ Tick

SpecRaw == Init /\ [][NextRaw]_vars

\* The raw-body deployment with its sweep timer: setInterval (index.js 364)
\* fires checkCacheValidity every 10 s for as long as the process runs, so a
\* sweep that has something to remove is not put off for ever.
\* The settling of page.close() is left to Spec and SpecRaw: it changes page
\* and pending only, and what a closed page does to a render (it rejects) the
\* engine does here of its own accord.
NextRawSweep ==
  \/ Boot
  \/ \E r \in Reqs : ArriveRaw(r)
  \/ \E r \in Reqs : NewPageDone(r)
  \/ \E r \in Reqs : EmulateDone(r)
  \/ \E r \in Reqs : AuthDone(r)
  \/ \E r \in Reqs : GotoDone(r)
  \/ \E r \in Reqs : PdfDone(r)
  \/ \E r \in Reqs : Pdf1Done(r)
  \/ \E r \in Reqs : Pdf2Done(r)
  \/ \E r \in Reqs : MergeDone(r)
  \/ \E k \in Keys : KeyGet(k)
  \/ Sweep
  \/ Tick

SpecRawSweep == Init /\ [][NextRawSweep]_vars /\ WF_vars(Sweep)

\* the call in `probe` has been looked at; the next one takes its place
Forget ==
  /\ probe # NoProbe
  /\ probe' = NoProbe
  /\ UNCHANGED <<req, pc, page, pending, errs, calls, fail, pdf1, pdf2, resp,
                 htmlCache, now, keyResp, viewport, server>>

\* The stateless parts of the handlers and of the Renderer, each applied to
\* inputs drawn from the sets above, one call at a time.
NextCalls ==
  \/ Intercept
  \/ Disposition
  \/ PdfOptions
  \/ ScreenshotOptions
  \/ Forget

SpecCalls == Init /\ [][NextCalls]_vars

\* ================================================================ claims
Done(r) == pc[r] = "done"
Opened(r) == page[r] # "none"
Sent(r) == resp[r][1]
RenderFailures == {"newPage", "emulate", "auth", "goto", "content", "pdf",
                   "pdf1", "merge", "anim", "capture"}

\* C1 (as claimed): whatever the exit path of html, pdf or screenshot, the
\* page that browser.newPage opened for the request has had page.close
\* called on it by the time the request is answered.
C1_PageClosedOnEveryExit ==
  \A r \in Reqs : (Done(r) /\ Opened(r)) => calls[r].close >= 1

\* C2 (as claimed): page.close is invoked at most once on any page, whatever
\* the interleaving of the 'error' observer and the finally block.
C2_CloseAtMostOnce ==
  \A r \in Reqs : calls[r].close <= 1

\* C3: in two-pass mode, when the body pass (pageRanges '2-') rejects, the
\* request is answered with exactly the cover pass's buffer and mergePdfs is
\* never called.
C3_BodyPassFallback ==
  \A r \in Reqs :
    (Done(r) /\ req[r].footer /\ fail[r] = "pdf2") =>
      /\ resp[r] = <<PdfResponse(pdf1[r])>>
      /\ calls[r].merge = 0
      /\ calls[r].pdf = 2

C3_Witness ==
  \E r \in Reqs :
    /\ Done(r) /\ req[r].footer /\ fail[r] = "pdf2"
    /\ Len(pdf1[r]) = 2
    /\ Sent(r).status = 200

\* C4: a successful two-pass request is answered with page 1 of the cover
\* pass followed by every page of the body pass in order: 1 + N pages, no
\* other cover page, no body page dropped, duplicated or moved.
C4_MergeOrder ==
  \A r \in Reqs :
    (Done(r) /\ req[r].footer /\ fail[r] = "none") =>
      LET out == Sent(r).body IN
      /\ Len(out) = 1 + Len(pdf2[r])
      /\ out[1] = pdf1[r][1]
      /\ \A i \in 1..Len(pdf2[r]) : out[i + 1] = pdf2[r][i]
      /\ \A i \in 2..Len(pdf1[r]) : \A j \in 1..Len(out) : out[j] # pdf1[r][i]

C4_Witness ==
  \E r \in Reqs :
    /\ Done(r) /\ req[r].footer /\ fail[r] = "none"
    /\ Len(pdf1[r]) = 2 /\ Len(pdf2[r]) = MaxBodyPages
    /\ Len(Sent(r).body) = 1 + MaxBodyPages

\* C5 (as claimed): every answered pdf request without footer template has
\* made exactly one page.pdf call and no mergePdfs call.
C5_ExactlyOneRender ==
  \A r \in Reqs :
    (Done(r) /\ req[r].op = "pdf" /\ ~req[r].footer) =>
      /\ calls[r].pdf = 1
      /\ calls[r].merge = 0

\* C5 (amended): a pdf request without footer template never makes more than
\* one page.pdf call and never calls mergePdfs; once createPage has resolved
\* it has made exactly one, none when createPage rejected; and a successful
\* one is answered with the buffer of that single full render.
C5_OneRenderOncePageCreated ==
  \A r \in Reqs :
    (req[r].op = "pdf" /\ ~req[r].footer) =>
      /\ calls[r].pdf <= 1
      /\ calls[r].merge = 0
      /\ (pc[r] = "pdf" \/ (Done(r) /\ fail[r] \in {"none", "pdf"})) => calls[r].pdf = 1
      /\ (Done(r) /\ fail[r] \in {"newPage", "emulate", "auth", "goto"}) => calls[r].pdf = 0
      /\ (Done(r) /\ fail[r] = "none") =>
           /\ Sent(r).status = 200
           /\ Len(Sent(r).body) >= 1
           /\ Sent(r).body = Buf("full", Len(Sent(r).body))

C5_Witness ==
  \E r \in Reqs :
    /\ Done(r) /\ req[r].op = "pdf" /\ ~req[r].footer /\ fail[r] = "none"
    /\ calls[r].pdf = 1
    /\ Sent(r) = PdfResponse(Buf("full", MaxBodyPages))

\* C6: a request on the query-based endpoint with a missing or empty url is
\* answered 400 at once, whatever its verb and type: no page is opened, no
\* engine call is made and the error handler is not reached.
C6_MissingUrl400 ==
  \A r \in Reqs :
    (req[r].kind = "query" /\ req[r].url \in {"missing", "empty"}) =>
      /\ Done(r)
      /\ resp[r] = <<Response(400, "text/html", HintBody)>>
      /\ calls[r] = NoCalls
      /\ page[r] = "none" /\ pending[r] = 0
      /\ fail[r] = "none"

C6_Witness ==
  \E r, q \in Reqs :
    /\ req[r].kind = "query" /\ req[r].url = "empty" /\ req[r].post
    /\ Sent(r).status = 400
    /\ req[q].url = "given" /\ page[q] = "open"

\* C7: a request is answered at most once, and exactly once when its handler
\* has finished; if page open, media emulation, authentication, navigation,
\* content, a single or cover-pass render, the merge, the animation wait or
\* the capture rejected, the one answer is the 500 with the fixed message.
C7_FailureIs500Once ==
  \A r \in Reqs :
    /\ Len(resp[r]) <= 1
    /\ Done(r) <=> Len(resp[r]) = 1
    /\ fail[r] \in RenderFailures =>
         resp[r] = <<Response(500, "text/html", GenericBody)>>
    /\ (Done(r) /\ Sent(r).status = 200) => fail[r] \in {"none", "pdf2"}

C7_Witness ==
  \E r, q \in Reqs :
    /\ fail[r] = "merge" /\ Sent(r).status = 500
    /\ fail[q] = "goto" /\ Sent(q).status = 500

\* ------------------------------------------------ claims on the html cache
Stored(r) == req[r].kind = "raw"
HtmlServed == keyResp.status = 200 /\ keyResp.body # InvalidKeyBody

C9_NotFoundIsInvalidKey ==
  keyResp.rep \in {"undefined", "null"} =>
    (keyResp.status = 200 /\ keyResp.body = InvalidKeyBody)

\* C10 (as claimed): the body of a raw request is in the cache under its key
\* from the start of the render, and a read that finds the unexpired entry
\* returns content identical to the body that was stored.
C10_RoundTrip ==
  \A r \in Reqs : Stored(r) =>
    /\ (req[r].key \in DOMAIN htmlCache) => htmlCache[req[r].key].html = req[r].html
    /\ (keyResp.key = req[r].key /\ keyResp.rep = "object") =>
         (keyResp.status = 200 /\ keyResp.body = req[r].html)

\* -------------------------------------- claims on the 'request' observer
Intercepted == probe.fn = "request"

\* C11 (as claimed): whatever the operation, the document request of the page
\* leaves as a POST with the JSON text of the caller's body and a JSON
\* content type if and only if the caller's request was a POST; any other
\* request keeps its method and body.
C11_PostIffCallerPost ==
  Intercepted =>
    LET in == probe.in
        out == probe.out
        rewritten == /\ out.method = "POST"
                     /\ out.postData = JSONstringify(in.body)
                     /\ out.headers.ContentType = "application/json"
    IN IF in.request.resourceType = "document"
         THEN (in.verb = "POST" => rewritten)
              /\ (in.verb # "POST" => out.method = "GET" /\ out.postData = Unset)
         ELSE out.method = in.request.method /\ out.postData = in.request.postData

Supplied(a) == a.k = "string" /\ a.v # ""

\* C12 (as claimed): a supplied authorization value leaves on every
\* intercepted request as a bearer Authorization header; when none is
\* supplied the request's Authorization header is as the page set it.
C12_BearerOnEveryRequest ==
  Intercepted =>
    IF Supplied(probe.in.authorization)
      THEN probe.out.headers.Authorization = "Bearer " \o probe.in.authorization.v
      ELSE probe.out.headers.Authorization = probe.in.request.headers.Authorization

\* C12 (amended): a supplied, non-empty authorization value leaves on every
\* intercepted request, document or not, as the Authorization header, exactly
\* as the caller wrote it and in place of any the page set; when none (or an
\* empty one) is supplied the request's Authorization header is as the page
\* set it.
C12_VerbatimOnEveryRequest ==
  Intercepted =>
    IF Supplied(probe.in.authorization)
      THEN probe.out.headers.Authorization = probe.in.authorization.v
      ELSE probe.out.headers.Authorization = probe.in.request.headers.Authorization

C12_Witness ==
  /\ Intercepted
  /\ probe.in.authorization = Str("abc123")
  /\ probe.in.request.resourceType = "xhr"
  /\ probe.in.request.headers.Authorization = "Basic b3du"
  /\ probe.out.headers.Authorization = "abc123"

\* ------------------------------------------- claims on the pdf filename
Named == probe.fn = "filename"
EndsInPdf(s) == endsWith(toLowerCase(s), DotPdf)
\* the path segments that are not empty
Segments(pathname) == SelectSeq(split(pathname, "/"), LAMBDA g : g # << >>)

\* C13 (as claimed): without a filename from the caller the name is the last
\* path segment of the url minus its extension (the text from the last dot
\* on, unless that dot comes first), or the hostname when the path is the
\* root; a filename from the caller is kept; either way '.pdf' is appended
\* unless the name already ends in it, whatever the case.
C13_FilenameDerivation ==
  Named =>
    LET filename == probe.in.filename
        urlObj == probe.in.urlObj
        segments == Segments(urlObj.pathname)
        name == IF ~falsy(filename) THEN filename.text
                ELSE IF urlObj.pathname = <<"/">> THEN urlObj.hostname
                ELSE stripExtension(pop(segments))
    IN (~falsy(filename) \/ urlObj.pathname = <<"/">> \/ segments # << >>) =>
         /\ EndsInPdf(probe.out)
         /\ probe.out = IF EndsInPdf(name) THEN name ELSE name \o DotPdf

\* --------------------------------------- claims on the engine's options
\* C14: the engine gets the boolean true for printBackground and landscape
\* (in the single render and in both passes) and for fullPage and
\* omitBackground exactly when the caller passed the string "true"; for any
\* other string, and when the flag is left out, it gets the boolean false.
C14_BooleanCoercion ==
  LET flag(given, forwarded) ==
        /\ forwarded \in {Bool(TRUE), Bool(FALSE)}
        /\ forwarded = Bool(TRUE) <=> given = Str("true")
  IN /\ probe.fn = "pdf" =>
          \A i \in DOMAIN probe.out :
            /\ flag(probe.in.extraOptions.printBackground, probe.out[i].printBackground)
            /\ flag(probe.in.extraOptions.landscape, probe.out[i].landscape)
     /\ probe.fn = "screenshot" =>
          /\ flag(probe.in.extraOptions.fullPage, probe.out.fullPage)
          /\ flag(probe.in.extraOptions.omitBackground, probe.out.omitBackground)

C14_Witness ==
  /\ probe.fn = "pdf"
  /\ Len(probe.out) = 2
  /\ probe.in.extraOptions.printBackground = Str("true")
  /\ probe.in.extraOptions.landscape = Str("TRUE")
  /\ probe.out[2].printBackground = Bool(TRUE)
  /\ probe.out[2].landscape = Bool(FALSE)

\* ------------------------------------------------ claims on the cleanup
\* a page.close() of r's page has rejected: every close called has settled
\* and the page is still open
CloseRejected(r) == calls[r].close >= 1 /\ pending[r] = 0 /\ page[r] = "open"
\* isClosed() threw in the finally block: the operation held its page, which
\* is open, and page.close() was never called
IsClosedThrew(r) ==
  /\ Done(r) /\ fail[r] \in {"none", "content", "pdf", "pdf1", "pdf2", "anim", "capture"}
  /\ page[r] = "open" /\ calls[r].close = 0

\* C15: a page.close() that rejects and an isClosed() that throws are
\* swallowed by closePage: the step at which a close settles leaves the
\* request where it was, no request ever fails with the close error, a
\* request whose operation succeeded is answered with its result and one
\* whose operation failed with the 500 of its own error.
C15_CloseFailureSwallowed ==
  /\ [](\A r \in Reqs :
          /\ fail[r] # "close"
          /\ (Done(r) /\ req[r].url = "given" /\ fail[r] = "none") =>
               /\ Sent(r).status = 200
               /\ Sent(r).body \in
                    CASE req[r].op = "html" -> {DomOf(r)}
                      [] req[r].op = "screenshot" -> {ImageOf(r)}
                      [] req[r].op = "pdf" /\ req[r].footer ->
                           {mergePdfs(pdf1[r], pdf2[r])}
                      [] OTHER -> {Buf("full", n) : n \in 1..MaxBodyPages}
          /\ (Done(r) /\ fail[r] \in RenderFailures) => Sent(r) = ErrorResponse)
  /\ [][\A r \in Reqs : CloseDone(r) =>
          (pc'[r] = pc[r] /\ fail'[r] = fail[r] /\ resp'[r] = resp[r])]_vars

C15_Witness ==
  \E r, q \in Reqs :
    /\ Done(r) /\ fail[r] = "none" /\ CloseRejected(r) /\ Sent(r).status = 200
    /\ Done(q) /\ fail[q] = "capture" /\ IsClosedThrew(q) /\ Sent(q).status = 500

\* ------------------------------------------------ claims on the two passes
\* C16: a pdf request renders in two passes exactly when it carries a footer
\* template.  The body pass (pageRanges '2-') is called only once the cover
\* pass (pageRanges '1') has resolved, on the same page; mergePdfs is called
\* once, only when both passes have resolved; and when the cover pass
\* rejects the request fails with the 500 after one page.pdf call, without a
\* body pass or a merge.
C16_TwoPassOrder ==
  \A r \in Reqs :
    /\ pc[r] \in {"pdf1", "pdf2", "merge"} => (req[r].op = "pdf" /\ req[r].footer)
    /\ pc[r] = "pdf" => (req[r].op = "pdf" /\ ~req[r].footer)
    /\ (calls[r].pdf = 2 \/ pdf1[r] # NoBuf \/ calls[r].merge >= 1) => req[r].footer
    /\ (req[r].op = "pdf" /\ req[r].footer) => pc[r] # "pdf"
    /\ pc[r] = "pdf1" =>
         (calls[r].pdf = 1 /\ pdf1[r] = NoBuf /\ pdf2[r] = NoBuf /\ calls[r].merge = 0)
    /\ calls[r].pdf = 2 => pdf1[r] # NoBuf
    /\ pc[r] = "pdf2" =>
         (calls[r].pdf = 2 /\ pdf2[r] = NoBuf /\ calls[r].merge = 0)
    /\ calls[r].merge >= 1 =>
         (calls[r].merge = 1 /\ calls[r].pdf = 2 /\ pdf1[r] # NoBuf /\ pdf2[r] # NoBuf)
    /\ pdf2[r] # NoBuf => calls[r].merge = 1
    /\ fail[r] = "pdf1" =>
         /\ calls[r].pdf = 1 /\ calls[r].merge = 0
         /\ pdf1[r] = NoBuf /\ pdf2[r] = NoBuf
         /\ resp[r] = <<ErrorResponse>>
    /\ calls[r].newPage <= 1

C16_Witness ==
  \E r, q \in Reqs :
    /\ Done(r) /\ req[r].footer /\ fail[r] = "none"
    /\ calls[r].pdf = 2 /\ calls[r].merge = 1 /\ Sent(r).status = 200
    /\ Done(q) /\ req[q].footer /\ fail[q] = "pdf1" /\ calls[q].pdf = 1

\* C16, the options of the two passes: with a footer template that is
\* neither null nor undefined there are two page.pdf calls, the first with
\* pageRanges '1' and the cover margin (35px unless given), the second with
\* pageRanges '2-' and the body margin (78px unless given), both with the
\* footer template and displayHeaderFooter true whatever the caller sent;
\* without one there is a single call and displayHeaderFooter is the
\* caller's flag.
C16_PassOptions ==
  probe.fn = "pdf" =>
    LET body == probe.in.body
        out == probe.out
        margin(given, default) == IF given \in {Undefined, Null} THEN Str(default)
                                  ELSE given
    IN IF body.footerTemplate \in {Undefined, Null}
         THEN /\ Len(out) = 1
              /\ out[1].pageRanges = Undefined
              /\ out[1].displayHeaderFooter =
                    Bool(probe.in.extraOptions.displayHeaderFooter = Str("true"))
         ELSE /\ Len(out) = 2
              /\ out[1].pageRanges = Str("1") /\ out[2].pageRanges = Str("2-")
              /\ out[1].margin.bottom = margin(body.footerFirstMarginBottom, "35px")
              /\ out[2].margin.bottom = margin(body.footerOtherMarginBottom, "78px")
              /\ \A i \in 1..2 :
                    /\ out[i].footerTemplate = body.footerTemplate
                    /\ out[i].displayHeaderFooter = Bool(TRUE)

\* -------------------------------------------------- claims on the sweep
Expired(k) == k \in DOMAIN htmlCache /\ htmlCache[k].validUntil < now

\* C17: an entry whose validUntil has passed is eventually out of the cache,
\* read or not, its POST answered or not, failed or not; and a sweep leaves
\* no expired entry behind.
C17_ExpiredEventuallySwept ==
  /\ \A k \in Keys : Expired(k) ~> (k \notin DOMAIN htmlCache)
  /\ [][Sweep => \A k \in DOMAIN htmlCache' : ~(htmlCache'[k].validUntil < now')]_vars

\* an entry of a failed POST, never read, has expired and been swept
C17_Witness ==
  \E r \in Reqs :
    /\ Stored(r) /\ Done(r) /\ Sent(r).status = 500
    /\ keyResp = NoKeyResp
    /\ now > TTL
    /\ req[r].key \notin DOMAIN htmlCache

\* ------------------------------------------- claims on the order of steps
Rendering(r) == pc[r] \in {"content", "pdf", "pdf1", "pdf2", "anim", "capture"}

\* C18 (as claimed): the steps of a request follow one another: nothing is
\* rendered or captured before page.goto has resolved, the viewport of a
\* screenshot is set before page.screenshot is called, and page.close is not
\* called on the page before the render or capture has settled.
C18_StrictlySequential ==
  \A r \in Reqs :
    /\ (Rendering(r) \/ calls[r].content + calls[r].pdf + calls[r].capture >= 1) =>
         (calls[r].goto = 1 /\ page[r] # "none")
    /\ pc[r] = "goto" => calls[r].content + calls[r].pdf + calls[r].capture = 0
    /\ calls[r].capture >= 1 => viewport[r] = "set"
    /\ Rendering(r) => calls[r].close = 0

\* ----------------------------------------------- claims on the pages
\* what the model keeps of the page of request r and of the calls on it
PageOf(r) == <<page[r], pending[r], calls[r], viewport[r], errs[r]>>

\* C19: a request that has passed the url check has called browser.newPage
\* exactly once, whatever its operation, its passes and its outcome, and one
\* that has not has never called it; and a step of the handler of one
\* request makes no call on, and changes nothing of, the page of another.
C19_OnePageEach ==
  /\ [](\A r \in Reqs :
          /\ calls[r].newPage <= 1
          /\ (pc[r] # "idle" /\ req[r].url = "given") => calls[r].newPage = 1
          /\ (pc[r] = "idle" \/ req[r].url # "given") => calls[r].newPage = 0
          /\ page[r] # "none" => calls[r].newPage = 1)
  /\ [][\A r \in Reqs :
          (pc'[r] # pc[r] \/ calls'[r] # calls[r]) =>
             \A q \in Reqs \ {r} : PageOf(q)' = PageOf(q)]_vars

C19_Witness ==
  \E r, q \in Reqs :
    /\ pc[r] = "pdf2" /\ calls[r].newPage = 1 /\ calls[r].pdf = 2 /\ page[r] = "open"
    /\ pc[q] = "capture" /\ calls[q].newPage = 1 /\ page[q] = "open"

\* ------------------------------------------- claims on cache isolation
Unexpired(k) == k \in DOMAIN htmlCache /\ ~(htmlCache[k].validUntil < now)
\* the POST handler that stored under k answers with the pdf in this step
OwnPostCompletes(k) ==
  \E r \in Reqs :
    /\ Stored(r) /\ req[r].key = k
    /\ pc[r] # "done" /\ pc'[r] = "done"
    /\ resp'[r] # << >> /\ resp'[r][1].status = 200

\* C20: an entry that has not expired stays in the cache, as it was stored,
\* through every sweep, every lookup (of its key or another) and every step
\* of a request with another key: it leaves the cache only in the step in
\* which the POST handler that stored it answers.  And the key handler
\* serves under key k nothing but the html that the request holding k
\* submitted.
C20_CacheIsolation ==
  /\ [](HtmlServed =>
          \A r \in Reqs :
            IF Stored(r) /\ req[r].key = keyResp.key
              THEN keyResp.body = req[r].html
              ELSE keyResp.body # HtmlOf(r))
  /\ [][\A k \in Keys :
          Unexpired(k) =>
            IF k \in DOMAIN htmlCache'
              THEN htmlCache'[k] = htmlCache[k]
              ELSE OwnPostCompletes(k)]_vars
  /\ [][(Sweep \/ \E k \in Keys : KeyGet(k)) =>
          \A k \in Keys : Unexpired(k) =>
             (k \in DOMAIN htmlCache' /\ htmlCache'[k] = htmlCache[k])]_vars

C20_Witness ==
  \E r, q \in Reqs :
    /\ Stored(r) /\ Done(r) /\ Sent(r).status = 200
    /\ req[r].key \notin DOMAIN htmlCache
    /\ Stored(q) /\ ~Done(q) /\ Unexpired(req[q].key)
    /\ htmlCache[req[q].key].html = HtmlOf(q)
    /\ keyResp.key = req[q].key /\ HtmlServed /\ keyResp.body = HtmlOf(q)
    /\ now > 0

\* A handler has run for r (it was entered, or it answered) / the renderer
\* was called for r (its create-page sequence has started).
Handled(r) == pc[r] # "idle" \/ resp[r] # << >>
Dispatched(r) == calls[r] # NoCalls \/ page[r] # "none"

\* C21: no request is dispatched to an uninitialised renderer.  The server
\* listens only after the renderer was created and assigned: whenever it
\* listens, and whenever a handler has run or the renderer was called for a
\* request or a key was looked up, the module-level renderer is non-null;
\* listening starts only in the step in which createRenderer resolves, and
\* the renderer is never reset; if the creation fails the server never
\* listens, no handler runs and nothing is answered.
C21_RendererBeforeListen ==
  /\ [](/\ server.listening => server.renderer = "created"
        /\ \A r \in Reqs :
             (Handled(r) \/ Dispatched(r)) =>
                server.listening /\ server.renderer = "created"
        /\ keyResp # NoKeyResp => server.renderer = "created"
        /\ server.boot = "catch" =>
             /\ ~server.listening /\ server.renderer = "null"
             /\ \A r \in Reqs : ~Handled(r) /\ ~Dispatched(r)
             /\ keyResp = NoKeyResp)
  /\ [][/\ (server'.listening /\ ~server.listening) =>
             (server.boot = "createRenderer" /\ server'.renderer = "created")
        /\ server.renderer = "created" => server' = server
        /\ server.boot = "catch" => server' = server]_vars

C21_Witness ==
  \E r, q \in Reqs :
    /\ server = [boot |-> "then", renderer |-> "created", listening |-> TRUE]
    /\ Done(r) /\ Sent(r).status = 200 /\ calls[r].newPage = 1
    /\ q # r /\ Dispatched(q) /\ ~Done(q)

====
